---- MODULE Spec2Model ----
(***************************************************************************)
(* Model of lambda_function.py: the S3 file mover with priority-ordered    *)
(* routing rules, a process-wide config cache and per-object processing.   *)
(*                                                                         *)
(* Python strings are modelled as sequences of one-character strings so    *)
(* that split, lower, startswith, ... are computed and not assumed.        *)
(* Python dicts are records; an absent key is an absent field, read with   *)
(* Get(d, k, default) as dict.get does.  An optional value (None or x) is  *)
(* the sequence <<>> or <<x>>.                                             *)
(***************************************************************************)
EXTENDS Integers, Sequences, FiniteSets, TLC

(***************************************************************************)
(* Bounds of the model                                                     *)
(***************************************************************************)
MaxTime == 2
MaxBatch == 2
MaxTypes == 2
MaxRules == 2
MaxPatterns == 2

(***************************************************************************)
(* dict and optional helpers                                               *)
(***************************************************************************)
None == <<>>
Some(x) == <<x>>
EmptyDict == [k \in {} |-> k]

Get(d, k, default) == IF k \in DOMAIN d THEN d[k] ELSE default

(***************************************************************************)
(* str methods                                                             *)
(***************************************************************************)
UpperChars == <<"A","B","C","D","E","F","G","H","I","J","K","L","M",
                "N","O","P","Q","R","S","T","U","V","W","X","Y","Z">>
LowerChars == <<"a","b","c","d","e","f","g","h","i","j","k","l","m",
                "n","o","p","q","r","s","t","u","v","w","x","y","z">>

LowerChar(c) ==
    IF \E i \in 1..26 : UpperChars[i] = c
    THEN LowerChars[CHOOSE i \in 1..26 : UpperChars[i] = c]
    ELSE c

RECURSIVE Lower(_)
Lower(s) == IF s = <<>> THEN <<>> ELSE <<LowerChar(Head(s))>> \o Lower(Tail(s))

StartsWith(s, p) == Len(p) <= Len(s) /\ SubSeq(s, 1, Len(p)) = p

EndsWith(s, p) == Len(p) <= Len(s) /\ SubSeq(s, Len(s) - Len(p) + 1, Len(s)) = p

Contains(s, p) ==
    \E i \in 0..(Len(s) - Len(p)) : SubSeq(s, i + 1, i + Len(p)) = p

HasChar(s, c) == \E i \in 1..Len(s) : s[i] = c

\* s.split(c): the list of segments between occurrences of the character c
RECURSIVE SplitFrom(_, _, _)
SplitFrom(s, c, cur) ==
    IF s = <<>> THEN <<cur>>
    ELSE IF Head(s) = c THEN <<cur>> \o SplitFrom(Tail(s), c, <<>>)
    ELSE SplitFrom(Tail(s), c, Append(cur, Head(s)))

Split(s, c) == SplitFrom(s, c, <<>>)

\* c.join(parts)
RECURSIVE Join(_, _)
Join(parts, c) ==
    IF parts = <<>> THEN <<>>
    ELSE IF Len(parts) = 1 THEN parts[1]
    ELSE parts[1] \o <<c>> \o Join(Tail(parts), c)

Last(parts) == parts[Len(parts)]
AllButLast(parts) == SubSeq(parts, 1, Len(parts) - 1)

\* s.rsplit(c, 1) for a string that contains c: <<before the last c, after it>>
RSplit1(s, c) ==
    LET parts == Split(s, c)
    IN  <<Join(AllButLast(parts), c), Last(parts)>>

(***************************************************************************)
(* urllib.parse.unquote_plus: '+' becomes a space, then each '%' followed  *)
(* by two hex digits becomes the character with that code; a '%' that is   *)
(* not followed by two hex digits is kept.  The escapes decoded here are   *)
(* the ones the modelled keys use.                                         *)
(***************************************************************************)
HexDigits == {"0","1","2","3","4","5","6","7","8","9",
              "a","b","c","d","e","f","A","B","C","D","E","F"}

PercentCode(h1, h2) ==
    IF h1 = "2" /\ h2 \in {"F", "f"} THEN "/"
    ELSE IF h1 = "2" /\ h2 \in {"E", "e"} THEN "."
    ELSE IF h1 = "2" /\ h2 \in {"B", "b"} THEN "+"
    ELSE IF h1 = "2" /\ h2 = "5" THEN "%"
    ELSE IF h1 = "2" /\ h2 = "0" THEN " "
    ELSE IF h1 = "4" /\ h2 = "1" THEN "A"
    ELSE "?"

RECURSIVE Unquote(_)
Unquote(s) ==
    IF s = <<>> THEN <<>>
    ELSE IF Head(s) = "%" /\ Len(s) >= 3 /\ s[2] \in HexDigits /\ s[3] \in HexDigits
         THEN <<PercentCode(s[2], s[3])>> \o Unquote(SubSeq(s, 4, Len(s)))
    ELSE <<Head(s)>> \o Unquote(Tail(s))

RECURSIVE PlusToSpace(_)
PlusToSpace(s) ==
    IF s = <<>> THEN <<>>
    ELSE <<IF Head(s) = "+" THEN " " ELSE Head(s)>> \o PlusToSpace(Tail(s))

unquote_plus(s) == Unquote(PlusToSpace(s))

(***************************************************************************)
(* re.search(pattern, string, flags) for the pattern language the modelled *)
(* rules use: literal characters, '.' (any character), a leading '^', a    *)
(* trailing '$'.  A pattern with an unclosed '(' or a leading '*' does not *)
(* compile and re.search raises re.error.                                  *)
(***************************************************************************)
RECURSIVE CountChar(_, _)
CountChar(s, c) ==
    IF s = <<>> THEN 0
    ELSE (IF Head(s) = c THEN 1 ELSE 0) + CountChar(Tail(s), c)

re_error(pattern) ==
    \/ CountChar(pattern, "(") # CountChar(pattern, ")")
    \/ (pattern # <<>> /\ Head(pattern) = "*")

ReCharEq(pc, c, ignorecase) ==
    \/ pc = "."
    \/ pc = c
    \/ (ignorecase /\ LowerChar(pc) = LowerChar(c))

\* the body (no anchors) matches s exactly at offset i
ReMatchAt(body, s, i, ignorecase) ==
    /\ i + Len(body) <= Len(s)
    /\ \A j \in 1..Len(body) : ReCharEq(body[j], s[i + j], ignorecase)

re_search(pattern, s, ignorecase) ==
    LET anchoredStart == pattern # <<>> /\ Head(pattern) = "^"
        p1 == IF anchoredStart THEN Tail(pattern) ELSE pattern
        anchoredEnd == p1 # <<>> /\ Last(p1) = "$"
        body == IF anchoredEnd THEN AllButLast(p1) ELSE p1
    IN  \E i \in 0..Len(s) :
            /\ ReMatchAt(body, s, i, ignorecase)
            /\ (anchoredStart => i = 0)
            /\ (anchoredEnd => i + Len(body) = Len(s))

(***************************************************************************)
(* check_filename_filter.  Python evaluates it to a boolean or raises:     *)
(* filename_filter['value'] raises KeyError when the filter has no value,  *)
(* and re.search raises re.error on a pattern that does not compile.       *)
(* check_filename_filter_exc is the exception raised ("none" when it       *)
(* returns) and check_filename_filter the value it returns.                *)
(***************************************************************************)
StringFilterTypes == {"starts_with", "not_starts_with", "ends_with", "contains"}

RECURSIVE check_filename_filter_exc(_, _)
RECURSIVE patterns_exc(_, _)

\* the loop of lines 252-254: the first nested filter that raises ends it
patterns_exc(filename, patterns) ==
    IF patterns = <<>> THEN "none"
    ELSE LET e == check_filename_filter_exc(filename, Head(patterns))
         IN  IF e # "none" THEN e ELSE patterns_exc(filename, Tail(patterns))

check_filename_filter_exc(filename, filename_filter) ==
    IF DOMAIN filename_filter = {} THEN "none"
    ELSE LET filter_type == Get(filename_filter, "type", "none")
         IN  IF filter_type \in StringFilterTypes
             THEN (IF "value" \in DOMAIN filename_filter THEN "none" ELSE "KeyError")
             ELSE IF filter_type = "regex"
             THEN (IF "value" \notin DOMAIN filename_filter THEN "KeyError"
                   ELSE IF re_error(filename_filter.value) THEN "re.error"
                   ELSE "none")
             ELSE IF filter_type = "multiple_patterns"
             THEN patterns_exc(filename, Get(filename_filter, "patterns", <<>>))
             ELSE "none"

\* 'any' is combined like 'all'
py_any_as_all(results) == \A i \in 1..Len(results) : results[i]

py_any(results) == \E i \in 1..Len(results) : results[i]
py_all(results) == \A i \in 1..Len(results) : results[i]

RECURSIVE check_filename_filter(_, _)
check_filename_filter(filename, filename_filter) ==
    IF DOMAIN filename_filter = {} THEN TRUE
    ELSE
    LET filter_type == Get(filename_filter, "type", "none")
        case_sensitive == Get(filename_filter, "case_sensitive", FALSE)
        check_filename == IF case_sensitive THEN filename ELSE Lower(filename)
        check_value == IF case_sensitive THEN filename_filter.value
                       ELSE Lower(filename_filter.value)
    IN  IF filter_type = "starts_with" THEN StartsWith(check_filename, check_value)
        ELSE IF filter_type = "not_starts_with" THEN ~StartsWith(check_filename, check_value)
        ELSE IF filter_type = "ends_with" THEN EndsWith(check_filename, check_value)
        ELSE IF filter_type = "contains" THEN Contains(check_filename, check_value)
        ELSE IF filter_type = "regex"
        THEN re_search(filename_filter.value, filename, ~case_sensitive)
        ELSE IF filter_type = "multiple_patterns"
        THEN LET patterns == Get(filename_filter, "patterns", <<>>)
                 match_logic == Get(filename_filter, "match_logic", "any")
                 results == [i \in 1..Len(patterns) |->
                                check_filename_filter(filename, patterns[i])]
             IN  IF match_logic = "any" THEN py_any(results) ELSE py_all(results)
        ELSE TRUE

(***************************************************************************)
(* check_file_type                                                         *)
(***************************************************************************)
\* the allowed entries are compared as written, only the extension is lowered
check_file_type_case_sensitive(filename, allowed_types) ==
    IF allowed_types = <<>> THEN TRUE
    ELSE LET file_ext == IF HasChar(filename, ".")
                         THEN <<".">> \o Last(Split(filename, "."))
                         ELSE <<>>
         IN  \E i \in 1..Len(allowed_types) : allowed_types[i] = Lower(file_ext)

check_file_type(filename, allowed_types) ==
    IF allowed_types = <<>> THEN TRUE
    ELSE LET file_ext == IF HasChar(filename, ".")
                         THEN <<".">> \o Last(Split(filename, "."))
                         ELSE <<>>
         IN  \E i \in 1..Len(allowed_types) :
                 Lower(allowed_types[i]) = Lower(file_ext)

(***************************************************************************)
(* matches_rule                                                            *)
(***************************************************************************)
valid_pattern_types == {"prefix_with_filename_filter", "prefix"}

source_folder(source_key) ==
    IF HasChar(source_key, "/")
    THEN Join(AllButLast(Split(source_key, "/")), "/") \o <<"/">>
    ELSE <<>>

\* prefix semantics instead of equality of the folder path
path_matches_prefix(pattern_type, folder, source_pattern) ==
    pattern_type \in valid_pattern_types /\ StartsWith(folder, source_pattern)

\* an unknown pattern_type falls back to plain folder matching
path_matches_any_type(pattern_type, folder, source_pattern) ==
    folder = source_pattern

path_matches(pattern_type, folder, source_pattern) ==
    pattern_type \in valid_pattern_types /\ folder = source_pattern

\* the checks of lines 133-168, which come before the filename filter
passes_gates(source_key, filename, rule) ==
    /\ Get(rule, "enabled", TRUE)
    /\ check_file_type(filename, Get(rule, "file_types", <<>>))
    /\ path_matches(Get(rule, "pattern_type", "prefix"),
                    source_folder(source_key),
                    Get(rule, "source_pattern", <<>>))

matches_rule_exc(source_key, filename, rule) ==
    IF /\ passes_gates(source_key, filename, rule)
       /\ Get(rule, "pattern_type", "prefix") = "prefix_with_filename_filter"
    THEN check_filename_filter_exc(filename, Get(rule, "filename_filter", EmptyDict))
    ELSE "none"

matches_rule(source_key, filename, rule) ==
    /\ passes_gates(source_key, filename, rule)
    /\ (Get(rule, "pattern_type", "prefix") = "prefix_with_filename_filter"
            => check_filename_filter(filename, Get(rule, "filename_filter", EmptyDict)))

(***************************************************************************)
(* find_best_destination.  The result records the exception raised ("none" *)
(* when it returns), the rule returned (None or Some(rule)) and how many   *)
(* rules were passed to matches_rule.                                      *)
(***************************************************************************)
key_filename(source_key) == Last(Split(source_key, "/"))

\* the check of line 118 is missing
is_hidden_or_dir_never(filename, source_key) == FALSE

is_hidden_or_dir(filename, source_key) ==
    StartsWith(filename, <<".">>) \/ EndsWith(source_key, <<"/">>)

RECURSIVE first_match(_, _, _, _)
first_match(source_key, filename, routing_rules, j) ==
    IF j > Len(routing_rules)
    THEN [exc |-> "none", rule |-> None, evaluated |-> j - 1]
    ELSE LET rule == routing_rules[j]
             e == matches_rule_exc(source_key, filename, rule)
         IN  IF e # "none"
             THEN [exc |-> e, rule |-> None, evaluated |-> j]
             ELSE IF matches_rule(source_key, filename, rule)
             THEN (IF "name" \in DOMAIN rule
                   THEN [exc |-> "none", rule |-> Some(rule), evaluated |-> j]
                   ELSE [exc |-> "KeyError", rule |-> None, evaluated |-> j])
             ELSE first_match(source_key, filename, routing_rules, j + 1)

find_best_destination(source_key, routing_rules) ==
    LET filename == key_filename(source_key)
    IN  IF is_hidden_or_dir(filename, source_key)
        THEN [exc |-> "none", rule |-> None, evaluated |-> 0]
        ELSE first_match(source_key, filename, routing_rules, 1)

(***************************************************************************)
(* routing_rules.sort(key=lambda x: x.get('priority', 999)): a stable sort *)
(***************************************************************************)
DefaultPriority == 999

\* a rule without priority sorts first
sort_key_missing_first(rule) == Get(rule, "priority", 0)

sort_key(rule) == Get(rule, "priority", DefaultPriority)

RECURSIVE insert_sorted(_, _)
insert_sorted(sorted, rule) ==
    IF sorted = <<>> THEN <<rule>>
    ELSE IF sort_key(Last(sorted)) <= sort_key(rule) THEN Append(sorted, rule)
    ELSE Append(insert_sorted(AllButLast(sorted), rule), Last(sorted))

\* an unstable sort: a rule is put before the rules of equal priority
RECURSIVE insert_before_equal(_, _)
insert_before_equal(sorted, rule) ==
    IF sorted = <<>> THEN <<rule>>
    ELSE IF sort_key(Last(sorted)) < sort_key(rule) THEN Append(sorted, rule)
    ELSE Append(insert_before_equal(AllButLast(sorted), rule), Last(sorted))

RECURSIVE sort_by_priority_unstable(_)
sort_by_priority_unstable(rules) ==
    IF rules = <<>> THEN <<>>
    ELSE insert_before_equal(sort_by_priority_unstable(AllButLast(rules)), Last(rules))

\* the document order is kept: the sort of line 85 is missing
sort_by_priority_unsorted(rules) == rules

RECURSIVE sort_by_priority(_)
sort_by_priority(rules) ==
    IF rules = <<>> THEN <<>>
    ELSE insert_sorted(sort_by_priority(AllButLast(rules)), Last(rules))

(***************************************************************************)
(* datetime.now().strftime('%Y%m%d_%H%M%S'), datetime.isoformat() and      *)
(* str(int)                                                                *)
(***************************************************************************)
DigitChars == <<"0","1","2","3","4","5","6","7","8","9">>
Digit(n) == DigitChars[n + 1]

RECURSIVE IntToStr(_)
IntToStr(n) == IF n < 10 THEN <<Digit(n)>> ELSE IntToStr(n \div 10) \o <<Digit(n % 10)>>

Pad2(n) == <<Digit((n \div 10) % 10), Digit(n % 10)>>
Pad4(n) == Pad2(n \div 100) \o Pad2(n % 100)

strftime(now) ==
    Pad4(now.Y) \o Pad2(now.M) \o Pad2(now.D) \o <<"_">> \o
    Pad2(now.h) \o Pad2(now.m) \o Pad2(now.s)

isoformat(now) ==
    Pad4(now.Y) \o <<"-">> \o Pad2(now.M) \o <<"-">> \o Pad2(now.D) \o <<"T">> \o
    Pad2(now.h) \o <<":">> \o Pad2(now.m) \o <<":">> \o Pad2(now.s)

\* the wall-clock instants datetime.now() may return, in increasing order
Clocks == <<[Y |-> 2024, M |-> 1, D |-> 5, h |-> 9, m |-> 30, s |-> 7],
            [Y |-> 2025, M |-> 12, D |-> 31, h |-> 23, m |-> 59, s |-> 59]>>

(***************************************************************************)
(* The environment: bucket names, CONFIG_FILE_KEY, object keys as they     *)
(* arrive in event records (percent-encoded), rules and config documents.  *)
(***************************************************************************)
CONFIG_BUCKET == <<"c","f","g">>
SrcBucket == <<"s","r","c">>
DstBucket == <<"d","s","t">>
CONFIG_FILE_KEY == <<"c","o","n","f","i","g","/","r","o","u","t","i","n","g","-","r","u","l","e","s",".","j","s","o","n">>

FolderIn == <<"I","n","/">>
FolderConfig == <<"c","o","n","f","i","g","/">>

KeyInCsv == <<"I","n","/","a",".","c","s","v">>
KeySubCsv == <<"I","n","/","S","/","a",".","c","s","v">>
KeyRootCsv == <<"a",".","c","s","v">>
KeyHidden == <<"I","n","/",".","k","e","e","p">>
KeyDir == <<"I","n","/">>
KeyEncoded == <<"I","n","%","2","F","A",".","C","S","V">>
KeyNoExt == <<"I","n","/","b">>

Keys == {KeyInCsv, KeySubCsv, KeyRootCsv, KeyHidden, KeyDir, KeyEncoded,
         KeyNoExt, CONFIG_FILE_KEY}

RuleCsv ==
    [name |-> "csv", priority |-> 1, enabled |-> TRUE, pattern_type |-> "prefix",
     source_pattern |-> FolderIn, file_types |-> <<<<".","c","s","v">>>>,
     destination_bucket |-> DstBucket, destination_prefix |-> <<"C","s","v","/">>,
     add_timestamp |-> FALSE, delete_source |-> TRUE]

RuleAll ==
    [name |-> "all", priority |-> 5, source_pattern |-> FolderIn,
     destination_bucket |-> DstBucket, destination_prefix |-> <<"O","u","t","/">>]

RuleRoot ==
    [name |-> "root", destination_bucket |-> DstBucket,
     destination_prefix |-> <<"R","o","o","t","/">>, add_timestamp |-> FALSE]

RuleNoPrefix ==
    [name |-> "noprefix", priority |-> 4, source_pattern |-> FolderIn,
     file_types |-> <<<<>>>>, destination_bucket |-> DstBucket]

RuleDisabled ==
    [name |-> "disabled", priority |-> 1, enabled |-> FALSE,
     source_pattern |-> FolderIn, destination_bucket |-> DstBucket,
     destination_prefix |-> <<"O","u","t","/">>]

RuleNoValue ==
    [name |-> "novalue", priority |-> 2,
     pattern_type |-> "prefix_with_filename_filter", source_pattern |-> FolderIn,
     file_types |-> <<<<".","c","s","v">>>>,
     filename_filter |-> [type |-> "starts_with"],
     destination_bucket |-> DstBucket, destination_prefix |-> <<"O","u","t","/">>]

RuleBadRegex ==
    [name |-> "badregex", priority |-> 3,
     pattern_type |-> "prefix_with_filename_filter", source_pattern |-> FolderIn,
     filename_filter |-> [type |-> "regex", value |-> <<"(","a">>],
     destination_bucket |-> DstBucket, destination_prefix |-> <<"O","u","t","/">>]

RuleBadType ==
    [name |-> "badtype", priority |-> 1, pattern_type |-> "multi_prefix",
     source_pattern |-> FolderIn, destination_bucket |-> DstBucket,
     destination_prefix |-> <<"C","s","v","/">>, delete_source |-> TRUE]

RuleFiltered ==
    [name |-> "filtered", priority |-> 0,
     pattern_type |-> "prefix_with_filename_filter", source_pattern |-> FolderIn,
     filename_filter |-> [type |-> "regex", value |-> <<"^","A",".">>,
                          case_sensitive |-> TRUE],
     destination_bucket |-> DstBucket, destination_prefix |-> <<"C","s","v","/">>,
     add_timestamp |-> FALSE]

RuleConfig ==
    [name |-> "config", priority |-> 1, source_pattern |-> FolderConfig,
     destination_bucket |-> DstBucket, destination_prefix |-> <<"O","u","t","/">>,
     add_timestamp |-> FALSE, delete_source |-> TRUE]

\* A config document: what get_object returns.  kind "rules" is a JSON
\* array of rule objects; the other kinds make line 80 (decode), line 82
\* (json.loads) or line 85 (sort) raise.
DocBasic == [kind |-> "rules", rules |-> <<RuleAll, RuleBadType, RuleCsv, RuleFiltered>>]
DocRoot == [kind |-> "rules", rules |-> <<RuleRoot, RuleNoPrefix, RuleDisabled, RuleConfig>>]
DocBad == [kind |-> "rules", rules |-> <<RuleAll, RuleBadRegex, RuleNoValue>>]
DocEmpty == [kind |-> "rules", rules |-> <<>>]
DocBadJson == [kind |-> "bad_json", rules |-> <<>>]
DocNotList == [kind |-> "not_a_list", rules |-> <<>>]

Docs == {DocBasic, DocRoot, DocBad, DocEmpty, DocBadJson, DocNotList}

RECURSIVE SeqsUpTo(_, _)
SeqsUpTo(S, n) ==
    IF n = 0 THEN {<<>>}
    ELSE LET shorter == SeqsUpTo(S, n - 1)
         IN  shorter \cup {Append(q, x) : q \in {r \in shorter : Len(r) = n - 1}, x \in S}

\* event['Records']: one to MaxBatch records, each a bucket name and a key
EventsOver(keys) ==
    {[i \in 1..Len(ks) |-> [bucket |-> SrcBucket, key |-> ks[i]]] :
        ks \in SeqsUpTo(keys, MaxBatch) \ {<<>>}}

Events == EventsOver(Keys)

RoutedKeys == {KeyInCsv, KeyNoExt, CONFIG_FILE_KEY}

RoutedEvents == EventsOver(RoutedKeys)

(***************************************************************************)
(* load_routing_config: the pieces the actions below are built from        *)
(***************************************************************************)
\* Python truth value of cached_config: None and the empty list are false
truthy_list(opt) == opt # None /\ opt[1] # <<>>

\* line 73: cached_config and config_last_modified and
\*          last_modified <= config_last_modified
use_cached(cache, cache_mtime, observed) ==
    /\ truthy_list(cache)
    /\ cache_mtime # None
    /\ observed <= cache_mtime[1]

\* lines 80-85 raise unless the document is a JSON array of rule objects
parse_fails(doc) == doc.kind # "rules"

\* the time of the load is recorded, not the LastModified observed
recorded_timestamp_later(observed) == Some(observed[1] + 1)

\* line 89: config_last_modified = last_modified
recorded_timestamp(observed) == observed

\* the except branch falls back to the cached rules
except_return_cached(cache) == IF cache = None THEN <<>> ELSE cache[1]

\* lines 94-97: what the except branch returns
except_return(cache) == <<>>

(***************************************************************************)
(* process_file: the pieces the actions below are built from               *)
(***************************************************************************)
destination_filename(filename, destination_info, now) ==
    IF Get(destination_info, "add_timestamp", TRUE)
    THEN LET timestamp == strftime(now)
             parts == IF HasChar(filename, ".") THEN RSplit1(filename, ".")
                      ELSE <<filename, <<>>>>
             name == parts[1]
             ext == parts[2]
         IN  name \o <<"_">> \o timestamp \o
             (IF ext # <<>> THEN <<".">> \o ext ELSE <<>>)
    ELSE filename

destination_key_of(source_key, destination_info, now) ==
    destination_info.destination_prefix \o
    destination_filename(key_filename(source_key), destination_info, now)

\* lines 288, 298 and 308 subscript the rule: a missing key raises KeyError
\* before copy_object is called
process_key_error(destination_info) ==
    \/ "destination_prefix" \notin DOMAIN destination_info
    \/ "name" \notin DOMAIN destination_info
    \/ "destination_bucket" \notin DOMAIN destination_info

copy_metadata(source_bucket, source_key, destination_info, now) ==
    [source_bucket |-> source_bucket,
     source_key |-> source_key,
     processed_by |-> "configurable-file-mover",
     processed_at |-> isoformat(now),
     routing_rule |-> destination_info.name,
     rule_priority |-> IF "priority" \in DOMAIN destination_info
                       THEN IntToStr(destination_info.priority)
                       ELSE <<"N","/","A">>]

\* the source is deleted whatever the rule says
should_delete_always(destination_info) == TRUE

should_delete(destination_info) == Get(destination_info, "delete_source", FALSE)

s3_uri(bucket, key) == <<"s","3",":","/","/">> \o bucket \o <<"/">> \o key

success_result(source_bucket, source_key, destination_info, destination_key) ==
    [success |-> TRUE,
     source |-> s3_uri(source_bucket, source_key),
     destination |-> s3_uri(destination_info.destination_bucket, destination_key),
     rule_used |-> destination_info.name,
     priority |-> Get(destination_info, "priority", <<"N","/","A">>)]

failure_result(source_bucket, source_key, exception) ==
    [success |-> FALSE,
     source |-> s3_uri(source_bucket, source_key),
     error |-> [text |-> "Failed to process", key |-> source_key,
                exception |-> exception]]

(***************************************************************************)
(* lambda_handler: the pieces the actions below are built from             *)
(***************************************************************************)
\* a failure result is dropped instead of being listed
collect_drops_failures(result, processed, errs) ==
    IF result.success
    THEN [processed_files |-> Append(processed, result), errors |-> errs]
    ELSE [processed_files |-> processed, errors |-> errs]

\* lines 39-42: where a result goes
collect(result, processed, errs) ==
    IF result.success
    THEN [processed_files |-> Append(processed, result), errors |-> errs]
    ELSE [processed_files |-> processed, errors |-> Append(errs, result)]

\* the status is 200 whatever failed
summary_always_200(processed, errs) ==
    [statusCode |-> 200,
     body |-> [processed_files |-> Len(processed),
               errors |-> Len(errs),
               details |-> [successful |-> processed, failed |-> errs]]]

\* lines 48-58
summary(processed, errs) ==
    [statusCode |-> IF Len(errs) = 0 THEN 200 ELSE 207,
     body |-> [processed_files |-> Len(processed),
               errors |-> Len(errs),
               details |-> [successful |-> processed, failed |-> errs]]]

(***************************************************************************)
(* State                                                                   *)
(***************************************************************************)
VARIABLES
    store_doc,             \* the config document in the config bucket
    store_mtime,           \* its LastModified
    cached_config,         \* module global, line 10
    config_last_modified,  \* module global, line 11
    pc,                    \* where the current invocation of lambda_handler is
    event,                 \* event['Records'] of the current invocation
    idx,                   \* position of the for loop of line 22
    last_modified,         \* local of load_routing_config, line 70
    routing_rules,         \* local of lambda_handler, line 17
    load_outcome,          \* which return of load_routing_config was taken
    destination_info,      \* local of lambda_handler, line 35
    copied_to,             \* destination_key of process_file after its copy
    processed_files,       \* local of lambda_handler, line 19
    errors,                \* local of lambda_handler, line 20
    resolved,              \* per handled record: what line 28 / line 35 gave
    s3_calls,              \* the calls made on s3_client, in order
    objects,               \* the objects in the buckets
    response,              \* what lambda_handler returned
    failed_after_load,     \* history: a load failed since the last successful one
    cached_from,           \* history: LastModified of the version cached_config holds
    args,                  \* the arguments of a function called on its own
    returned,              \* what that call returned
    frames,                \* load_routing_config of each overlapping invocation
    overlapped             \* history: two invocations ran load_routing_config at once

vars == <<store_doc, store_mtime, cached_config, config_last_modified, pc,
          event, idx, last_modified, routing_rules, load_outcome,
          destination_info, copied_to, processed_files, errors, resolved,
          s3_calls, objects, response, failed_after_load, cached_from,
          args, returned, frames, overlapped>>

store_vars == <<store_doc, store_mtime>>
cache_vars == <<cached_config, config_last_modified>>
result_vars == <<processed_files, errors>>
history_vars == <<failed_after_load, cached_from>>
call_vars == <<args, returned>>
thread_vars == <<frames, overlapped>>

source_bucket == event[idx].bucket
source_key == unquote_plus(event[idx].key)

s3_call(op, bucket, key, ok) == [op |-> op, bucket |-> bucket, key |-> key, ok |-> ok]

\* process start: the module globals of lines 10-11 are None
CacheEmpty ==
    /\ cached_config = None
    /\ config_last_modified = None
    /\ failed_after_load = FALSE
    /\ cached_from = None

\* no invocation of lambda_handler is running
HandlerIdle ==
    /\ pc = "idle"
    /\ event = <<>>
    /\ idx = 1
    /\ last_modified = None
    /\ routing_rules = <<>>
    /\ load_outcome = "none"
    /\ destination_info = None
    /\ copied_to = None
    /\ processed_files = <<>>
    /\ errors = <<>>
    /\ resolved = <<>>
    /\ s3_calls = <<>>
    /\ objects = {}
    /\ response = None

\* no function is called on its own
NoCall ==
    /\ args = None
    /\ returned = None

\* the invocations that may overlap, and the frame of one that is not running
Invocations == {"A", "B"}

idle_frame ==
    [pc |-> "idle", last_modified |-> None, routing_rules |-> None,
     fetched |-> None, outcome |-> "none"]

NoThreads ==
    /\ frames = [i \in Invocations |-> idle_frame]
    /\ overlapped = FALSE

Init ==
    /\ store_doc \in Docs
    /\ store_mtime = 1
    /\ CacheEmpty
    /\ HandlerIdle
    /\ NoCall
    /\ NoThreads

(***************************************************************************)
(* The environment replaces the config document.  LastModified has a one   *)
(* second resolution, so a replacement may keep the timestamp.  It happens  *)
(* between invocations or between head_object and get_object; one made at  *)
(* another point of an invocation is seen as one made right after it.      *)
(***************************************************************************)
PutConfig ==
    /\ pc \in {"idle", "get"}
    /\ \E doc \in Docs, t \in store_mtime..MaxTime :
          /\ doc # store_doc
          /\ store_doc' = doc
          /\ store_mtime' = t
    /\ UNCHANGED <<history_vars, call_vars, thread_vars,
                   cached_config, config_last_modified, pc, event, idx,
                   last_modified, routing_rules, load_outcome, destination_info,
                   copied_to, processed_files, errors, resolved, s3_calls,
                   objects, response>>

(***************************************************************************)
(* lambda_handler is invoked with an event (lines 13-20).  Invocations run *)
(* one at a time: the next starts when the previous returned or raised.    *)
(***************************************************************************)
InvokeWith(events) ==
    /\ pc = "idle"
    /\ \E ev \in events :
          /\ event' = ev
          /\ objects' = {[bucket |-> ev[i].bucket, key |-> unquote_plus(ev[i].key)] :
                            i \in 1..Len(ev)}
    /\ pc' = "head"
    /\ UNCHANGED <<history_vars, call_vars, thread_vars,
                   store_vars, cache_vars, idx, last_modified, routing_rules,
                   load_outcome, destination_info, copied_to, result_vars,
                   resolved, s3_calls, response>>

\* an event with any of the keys
Invoke == InvokeWith(Events)

\* an event whose keys some rule routes, or the config key
InvokeRouted == InvokeWith(RoutedEvents)

(***************************************************************************)
(* load_routing_config, lines 60-97                                        *)
(***************************************************************************)
\* the except branch: the invocation goes on with except_return
LoadFailed(call) ==
    /\ routing_rules' = except_return(cached_config)
    /\ load_outcome' = "failed"
    /\ s3_calls' = Append(s3_calls, call)
    /\ pc' = "loop"
    /\ failed_after_load' = (cached_config # None)
    /\ UNCHANGED <<cached_from, call_vars, thread_vars,
                   store_vars, cache_vars, event, idx, destination_info,
                   copied_to, result_vars, resolved, objects, response>>

\* line 69 raises
HeadObjectFails ==
    /\ pc = "head"
    /\ LoadFailed(s3_call("head_object", CONFIG_BUCKET, CONFIG_FILE_KEY, FALSE))
    /\ UNCHANGED last_modified

\* lines 69-75: head_object returns and the cached rules are still current
HeadObjectUseCached ==
    /\ pc = "head"
    /\ use_cached(cached_config, config_last_modified, store_mtime)
    /\ last_modified' = Some(store_mtime)
    /\ routing_rules' = cached_config[1]
    /\ load_outcome' = "cached"
    /\ s3_calls' = Append(s3_calls, s3_call("head_object", CONFIG_BUCKET, CONFIG_FILE_KEY, TRUE))
    /\ pc' = "loop"
    /\ UNCHANGED <<history_vars, call_vars, thread_vars,
                   store_vars, cache_vars, event, idx, destination_info,
                   copied_to, result_vars, resolved, objects, response>>

\* lines 69-78: head_object returns and a fresh load is needed
HeadObjectNeedsLoad ==
    /\ pc = "head"
    /\ ~use_cached(cached_config, config_last_modified, store_mtime)
    /\ last_modified' = Some(store_mtime)
    /\ s3_calls' = Append(s3_calls, s3_call("head_object", CONFIG_BUCKET, CONFIG_FILE_KEY, TRUE))
    /\ pc' = "get"
    /\ UNCHANGED <<history_vars, call_vars, thread_vars,
                   store_vars, cache_vars, event, idx, routing_rules,
                   load_outcome, destination_info, copied_to, result_vars,
                   resolved, objects, response>>

\* line 79 raises
GetObjectFails ==
    /\ pc = "get"
    /\ LoadFailed(s3_call("get_object", CONFIG_BUCKET, CONFIG_FILE_KEY, FALSE))
    /\ UNCHANGED last_modified

\* line 79 returns, and decoding, json.loads or the sort raises
GetObjectParseFails ==
    /\ pc = "get"
    /\ parse_fails(store_doc)
    /\ LoadFailed(s3_call("get_object", CONFIG_BUCKET, CONFIG_FILE_KEY, TRUE))
    /\ UNCHANGED last_modified

\* lines 79-92: the document is fetched, parsed, sorted and cached
GetObjectLoads ==
    /\ pc = "get"
    /\ ~parse_fails(store_doc)
    /\ LET rules == sort_by_priority(store_doc.rules)
       IN  /\ cached_config' = Some(rules)
           /\ config_last_modified' = recorded_timestamp(last_modified)
           /\ routing_rules' = rules
    /\ load_outcome' = "fresh"
    /\ s3_calls' = Append(s3_calls, s3_call("get_object", CONFIG_BUCKET, CONFIG_FILE_KEY, TRUE))
    /\ pc' = "loop"
    /\ failed_after_load' = FALSE
    /\ cached_from' = Some(store_mtime)
    /\ UNCHANGED <<call_vars, thread_vars,
                   store_vars, event, idx, last_modified, destination_info,
                   copied_to, result_vars, resolved, objects, response>>

(***************************************************************************)
(* The for loop of lambda_handler, lines 22-46                             *)
(***************************************************************************)
\* the config file is handled like any other object
is_config_file_never(key) == FALSE

\* line 28: source_key == config_key
is_config_file(key) == key = CONFIG_FILE_KEY

resolution(skipped, found) ==
    [key |-> source_key, skipped |-> skipped, exc |-> found.exc,
     rule |-> found.rule, evaluated |-> found.evaluated]

not_looked_up == [exc |-> "none", rule |-> None, evaluated |-> 0]

\* lines 28-30: the record is the config file itself
SkipConfigRecord ==
    /\ pc = "loop"
    /\ idx <= Len(event)
    /\ is_config_file(source_key)
    /\ resolved' = Append(resolved, resolution(TRUE, not_looked_up))
    /\ idx' = idx + 1
    /\ UNCHANGED <<history_vars, call_vars, thread_vars,
                   store_vars, cache_vars, pc, event, last_modified,
                   routing_rules, load_outcome, destination_info, copied_to,
                   result_vars, s3_calls, objects, response>>

\* line 35 raises: nothing in lambda_handler catches it
ResolveRaises ==
    /\ pc = "loop"
    /\ idx <= Len(event)
    /\ ~is_config_file(source_key)
    /\ LET found == find_best_destination(source_key, routing_rules)
       IN  /\ found.exc # "none"
           /\ resolved' = Append(resolved, resolution(FALSE, found))
    /\ pc' = "raised"
    /\ UNCHANGED <<history_vars, call_vars, thread_vars,
                   store_vars, cache_vars, event, idx, last_modified,
                   routing_rules, load_outcome, destination_info, copied_to,
                   result_vars, s3_calls, objects, response>>

\* lines 35, 43-46: no rule, the object is ignored
ResolveNone ==
    /\ pc = "loop"
    /\ idx <= Len(event)
    /\ ~is_config_file(source_key)
    /\ LET found == find_best_destination(source_key, routing_rules)
       IN  /\ found.exc = "none"
           /\ found.rule = None
           /\ resolved' = Append(resolved, resolution(FALSE, found))
    /\ idx' = idx + 1
    /\ UNCHANGED <<history_vars, call_vars, thread_vars,
                   store_vars, cache_vars, pc, event, last_modified,
                   routing_rules, load_outcome, destination_info, copied_to,
                   result_vars, s3_calls, objects, response>>

\* lines 35-38: a rule is found and process_file is entered
ResolveRule ==
    /\ pc = "loop"
    /\ idx <= Len(event)
    /\ ~is_config_file(source_key)
    /\ LET found == find_best_destination(source_key, routing_rules)
       IN  /\ found.exc = "none"
           /\ found.rule # None
           /\ resolved' = Append(resolved, resolution(FALSE, found))
           /\ destination_info' = found.rule
    /\ pc' = "process"
    /\ UNCHANGED <<history_vars, call_vars, thread_vars,
                   store_vars, cache_vars, event, idx, last_modified,
                   routing_rules, load_outcome, copied_to, result_vars,
                   s3_calls, objects, response>>

(***************************************************************************)
(* process_file, lines 275-338, and lines 39-42 of its caller              *)
(***************************************************************************)
\* the result is returned, put in its list, and the loop goes on
ReturnResult(result) ==
    /\ LET lists == collect(result, processed_files, errors)
       IN  /\ processed_files' = lists.processed_files
           /\ errors' = lists.errors
    /\ destination_info' = None
    /\ copied_to' = None
    /\ idx' = idx + 1
    /\ pc' = "loop"

\* lines 288-308 raise KeyError before any call is made
ProcessKeyError ==
    /\ pc = "process"
    /\ process_key_error(destination_info[1])
    /\ ReturnResult(failure_result(source_bucket, source_key, "KeyError"))
    /\ UNCHANGED <<history_vars, call_vars, thread_vars,
                   store_vars, cache_vars, event, last_modified, routing_rules,
                   load_outcome, resolved, s3_calls, objects, response>>

copy_call(now1, now2, ok) ==
    LET rule == destination_info[1]
    IN  [op |-> "copy_object",
         bucket |-> rule.destination_bucket,
         key |-> destination_key_of(source_key, rule, now1),
         ok |-> ok,
         copy_source |-> [bucket |-> source_bucket, key |-> source_key],
         metadata |-> copy_metadata(source_bucket, source_key, rule, now2)]

\* lines 306-312 raise: the copy failed
CopyObjectFails ==
    /\ pc = "process"
    /\ ~process_key_error(destination_info[1])
    /\ \E n1 \in 1..Len(Clocks) : \E n2 \in n1..Len(Clocks) :
          s3_calls' = Append(s3_calls, copy_call(Clocks[n1], Clocks[n2], FALSE))
    /\ ReturnResult(failure_result(source_bucket, source_key, "ClientError"))
    /\ UNCHANGED <<history_vars, call_vars, thread_vars,
                   store_vars, cache_vars, event, last_modified, routing_rules,
                   load_outcome, resolved, objects, response>>

\* lines 306-319: the copy succeeded; a source that is gone cannot be copied
CopyObjectSucceeds ==
    /\ pc = "process"
    /\ ~process_key_error(destination_info[1])
    /\ [bucket |-> source_bucket, key |-> source_key] \in objects
    /\ \E n1 \in 1..Len(Clocks) : \E n2 \in n1..Len(Clocks) :
          LET call == copy_call(Clocks[n1], Clocks[n2], TRUE)
          IN  /\ s3_calls' = Append(s3_calls, call)
              /\ objects' = objects \cup {[bucket |-> call.bucket, key |-> call.key]}
              /\ IF should_delete(destination_info[1])
                 THEN /\ copied_to' = Some(call.key)
                      /\ pc' = "delete"
                      /\ UNCHANGED <<idx, destination_info, result_vars>>
                 ELSE ReturnResult(success_result(source_bucket, source_key,
                                                  destination_info[1], call.key))
    /\ UNCHANGED <<history_vars, call_vars, thread_vars,
                   store_vars, cache_vars, event, last_modified, routing_rules,
                   load_outcome, resolved, response>>

delete_call(ok) == s3_call("delete_object", source_bucket, source_key, ok)

\* line 320 raises: the delete failed
DeleteObjectFails ==
    /\ pc = "delete"
    /\ s3_calls' = Append(s3_calls, delete_call(FALSE))
    /\ ReturnResult(failure_result(source_bucket, source_key, "ClientError"))
    /\ UNCHANGED <<history_vars, call_vars, thread_vars,
                   store_vars, cache_vars, event, last_modified, routing_rules,
                   load_outcome, resolved, objects, response>>

\* lines 320-329: the source is deleted
DeleteObjectSucceeds ==
    /\ pc = "delete"
    /\ s3_calls' = Append(s3_calls, delete_call(TRUE))
    /\ objects' = objects \ {[bucket |-> source_bucket, key |-> source_key]}
    /\ ReturnResult(success_result(source_bucket, source_key,
                                   destination_info[1], copied_to[1]))
    /\ UNCHANGED <<history_vars, call_vars, thread_vars,
                   store_vars, cache_vars, event, last_modified, routing_rules,
                   load_outcome, resolved, response>>

\* lines 48-58: the loop is over and the summary is returned
ReturnSummary ==
    /\ pc = "loop"
    /\ idx > Len(event)
    /\ response' = Some(summary(processed_files, errors))
    /\ pc' = "returned"
    /\ UNCHANGED <<history_vars, call_vars, thread_vars,
                   store_vars, cache_vars, event, idx, last_modified,
                   routing_rules, load_outcome, destination_info, copied_to,
                   result_vars, resolved, s3_calls, objects>>

\* the invocation is over; the module globals are all that remains of it
Finish ==
    /\ pc \in {"returned", "raised"}
    /\ pc' = "idle"
    /\ event' = <<>>
    /\ idx' = 1
    /\ last_modified' = None
    /\ routing_rules' = <<>>
    /\ load_outcome' = "none"
    /\ destination_info' = None
    /\ copied_to' = None
    /\ processed_files' = <<>>
    /\ errors' = <<>>
    /\ resolved' = <<>>
    /\ s3_calls' = <<>>
    /\ objects' = {}
    /\ response' = None
    /\ UNCHANGED <<history_vars, call_vars, thread_vars,
                   store_vars, cache_vars>>

(***************************************************************************)
(* Spec: the config document is replaced over time, and the events carry   *)
(* the keys that are routed.                                               *)
(***************************************************************************)
Next ==
    \/ PutConfig
    \/ InvokeRouted
    \/ HeadObjectFails
    \/ HeadObjectUseCached
    \/ HeadObjectNeedsLoad
    \/ GetObjectFails
    \/ GetObjectParseFails
    \/ GetObjectLoads
    \/ SkipConfigRecord
    \/ ResolveRaises
    \/ ResolveNone
    \/ ResolveRule
    \/ ProcessKeyError
    \/ CopyObjectFails
    \/ CopyObjectSucceeds
    \/ DeleteObjectFails
    \/ DeleteObjectSucceeds
    \/ ReturnSummary
    \/ Finish

Spec == Init /\ [][Next]_vars

(***************************************************************************)
(* SpecRouting: the config document stays the one first put (any of Docs), *)
(* and the events carry any of the keys.                                   *)
(***************************************************************************)
NextRouting ==
    \/ Invoke
    \/ HeadObjectFails
    \/ HeadObjectUseCached
    \/ HeadObjectNeedsLoad
    \/ GetObjectFails
    \/ GetObjectParseFails
    \/ GetObjectLoads
    \/ SkipConfigRecord
    \/ ResolveRaises
    \/ ResolveNone
    \/ ResolveRule
    \/ ProcessKeyError
    \/ CopyObjectFails
    \/ CopyObjectSucceeds
    \/ DeleteObjectFails
    \/ DeleteObjectSucceeds
    \/ ReturnSummary
    \/ Finish

SpecRouting == Init /\ [][NextRouting]_vars

(***************************************************************************)
(* SpecCalls: a function of the module is called on its own, with          *)
(* arguments drawn from bounded sets.                                      *)
(***************************************************************************)
\* check_file_type(filename, allowed_types)
TypeFilenames == {<<"a",".","c","s","v">>, <<"a",".","C","S","V">>, <<"b">>, <<"a",".">>, <<"a",".","b",".","C","S","V">>, <<".","c","s","v">>, <<>>}

TypeEntries == {<<".","c","s","v">>, <<".","C","S","V">>, <<>>, <<".">>, <<".","b">>}

FileTypeArgs ==
    {[fn |-> "check_file_type", filename |-> f, allowed_types |-> a] :
        f \in TypeFilenames, a \in SeqsUpTo(TypeEntries, MaxTypes)}

\* the sort of line 85 and find_best_destination(source_key, routing_rules),
\* on documents of up to MaxRules rules that differ in their priority
RuleNoPriority ==
    [name |-> "nopriority", source_pattern |-> FolderIn,
     destination_bucket |-> DstBucket, destination_prefix |-> <<"O","u","t","/">>]

RuleWithPriority(name, priority, source_pattern) ==
    [name |-> name, priority |-> priority, source_pattern |-> source_pattern,
     destination_bucket |-> DstBucket, destination_prefix |-> <<"O","u","t","/">>]

PriorityRules ==
    {RuleNoPriority,
     RuleWithPriority("p1", 1, FolderIn),
     RuleWithPriority("p999", 999, FolderIn),
     RuleWithPriority("p1000", 1000, FolderIn),
     RuleWithPriority("elsewhere", 0, FolderConfig)}

ResolveArgs ==
    {[fn |-> "find_best_destination", source_key |-> k, document |-> d] :
        k \in {KeyInCsv, KeyHidden}, d \in SeqsUpTo(PriorityRules, MaxRules)}

\* check_filename_filter(filename, filename_filter) on multiple_patterns
\* filters of up to MaxPatterns nested filters
FilterFilenames == {<<"A","b">>, <<"b","a">>}

FilterStartsWithA == [type |-> "starts_with", value |-> <<"a">>]
FilterEndsWithB == [type |-> "ends_with", value |-> <<"b">>, case_sensitive |-> TRUE]
FilterContainsX == [type |-> "contains", value |-> <<"x">>]
FilterBoth ==
    [type |-> "multiple_patterns", match_logic |-> "all",
     patterns |-> <<FilterStartsWithA, FilterEndsWithB>>]

NestedFilters ==
    {FilterStartsWithA, FilterEndsWithB, FilterContainsX, FilterBoth, EmptyDict,
     [type |-> "starts_with"]}

MatchLogics == {"any", "all", "ANY"}

PatternFilters ==
    {[type |-> "multiple_patterns"]}
    \cup {[type |-> "multiple_patterns", match_logic |-> l] : l \in MatchLogics}
    \cup {[type |-> "multiple_patterns", patterns |-> ps] :
            ps \in SeqsUpTo(NestedFilters, MaxPatterns)}
    \cup {[type |-> "multiple_patterns", patterns |-> ps, match_logic |-> l] :
            ps \in SeqsUpTo(NestedFilters, MaxPatterns), l \in MatchLogics}

FilterArgs ==
    {[fn |-> "check_filename_filter", filename |-> f, filename_filter |-> ff] :
        f \in FilterFilenames, ff \in PatternFilters}

\* the destination key of process_file, lines 278-288
DestinationSourceKeys == {KeyInCsv, KeyNoExt, KeyRootCsv, <<"I","n","/","a",".">>, <<"I","n","/","a",".","b",".","c","s","v">>}

DestinationRules ==
    LET Rule(prefix) == [name |-> "rule", destination_bucket |-> DstBucket,
                         destination_prefix |-> prefix]
        prefixes == {<<"O","u","t","/">>, <<"O","u","t">>, <<>>}
    IN  {Rule(p) : p \in prefixes}
        \cup {[add_timestamp |-> t] @@ Rule(p) : p \in prefixes, t \in BOOLEAN}

DestinationArgs ==
    {[fn |-> "destination_key", source_key |-> k, destination_info |-> r, now |-> Clocks[n]] :
        k \in DestinationSourceKeys, r \in DestinationRules, n \in 1..Len(Clocks)}

CallArgs == FileTypeArgs \cup ResolveArgs \cup FilterArgs \cup DestinationArgs

InitCalls ==
    /\ store_doc = DocEmpty
    /\ store_mtime = 1
    /\ CacheEmpty
    /\ HandlerIdle
    /\ args \in {Some(a) : a \in CallArgs}
    /\ returned = None
    /\ NoThreads

\* the call returns (or raises), and nothing else happens
Return(value) ==
    /\ returned = None
    /\ returned' = Some(value)
    /\ UNCHANGED <<store_vars, cache_vars, history_vars, thread_vars, args, pc,
                   event, idx, last_modified, routing_rules, load_outcome,
                   destination_info, copied_to, result_vars, resolved,
                   s3_calls, objects, response>>

\* lines 267-273
CallCheckFileType ==
    /\ args[1].fn = "check_file_type"
    /\ Return(check_file_type(args[1].filename, args[1].allowed_types))

\* lines 85 and 113-127: the document's rules are sorted and the key resolved
CallFindBestDestination ==
    /\ args[1].fn = "find_best_destination"
    /\ LET rules == sort_by_priority(args[1].document)
       IN  Return([routing_rules |-> rules,
                   found |-> find_best_destination(args[1].source_key, rules)])

\* lines 201-265: the call returns a boolean or raises
CallCheckFilenameFilter ==
    /\ args[1].fn = "check_filename_filter"
    /\ LET e == check_filename_filter_exc(args[1].filename, args[1].filename_filter)
       IN  Return(IF e # "none" THEN [exc |-> e]
                  ELSE [exc |-> "none",
                        value |-> check_filename_filter(args[1].filename,
                                                        args[1].filename_filter)])

\* lines 278-288: the destination key process_file computes
CallDestinationKey ==
    /\ args[1].fn = "destination_key"
    /\ Return(destination_key_of(args[1].source_key, args[1].destination_info,
                                 args[1].now))

NextCalls ==
    \/ CallCheckFileType
    \/ CallDestinationKey
    \/ CallCheckFilenameFilter
    \/ CallFindBestDestination

SpecCalls == InitCalls /\ [][NextCalls]_vars

(***************************************************************************)
(* SpecConcurrent: invocations that overlap on the module globals, as in a *)
(* multi-threaded host.  Each runs load_routing_config (lines 60-97) step   *)
(* by step: every read and every write of a global is a step of its own,   *)
(* and the steps of the two interleave freely.  frames[i].fetched is       *)
(* history: the LastModified of the version frames[i] parsed.              *)
(***************************************************************************)
thread_frame(i, frame) ==
    /\ frames' = [frames EXCEPT ![i] = frame]
    /\ UNCHANGED <<store_vars, failed_after_load, call_vars, pc, event, idx,
                   last_modified, routing_rules, load_outcome, destination_info,
                   copied_to, result_vars, resolved, s3_calls, objects, response>>

\* load_routing_config returns: its locals are gone
thread_return(i, rules, outcome) ==
    thread_frame(i, [idle_frame EXCEPT !.pc = "done", !.routing_rules = Some(rules),
                                       !.outcome = outcome])

\* line 17: an invocation calls load_routing_config
ThreadEnter(i) ==
    /\ frames[i].pc \in {"idle", "done"}
    /\ thread_frame(i, [idle_frame EXCEPT !.pc = "head"])
    /\ overlapped' = (overlapped \/ \E j \in Invocations \ {i} :
                                       frames[j].pc \notin {"idle", "done"})
    /\ UNCHANGED <<cache_vars, cached_from>>

\* lines 69-70: head_object returns LastModified
ThreadHeadObject(i) ==
    /\ frames[i].pc = "head"
    /\ thread_frame(i, [frames[i] EXCEPT !.pc = "test_config",
                                         !.last_modified = Some(store_mtime)])
    /\ UNCHANGED <<cache_vars, cached_from, overlapped>>

\* line 69 or line 79 raises, or lines 80-85 raise on the document fetched
ThreadLoadFails(i) ==
    /\ frames[i].pc \in {"head", "get"}
    /\ thread_return(i, except_return(cached_config), "failed")
    /\ UNCHANGED <<cache_vars, cached_from, overlapped>>

\* line 73, first operand: the truth value of cached_config
ThreadTestConfig(i) ==
    /\ frames[i].pc = "test_config"
    /\ thread_frame(i, [frames[i] EXCEPT !.pc =
          IF truthy_list(cached_config) THEN "test_time" ELSE "get"])
    /\ UNCHANGED <<cache_vars, cached_from, overlapped>>

\* line 73, the other operands: config_last_modified, which once set is
\* never None again, is read and compared
ThreadTestTime(i) ==
    /\ frames[i].pc = "test_time"
    /\ thread_frame(i, [frames[i] EXCEPT !.pc =
          IF /\ config_last_modified # None
             /\ frames[i].last_modified[1] <= config_last_modified[1]
          THEN "return_cached" ELSE "get"])
    /\ UNCHANGED <<cache_vars, cached_from, overlapped>>

\* line 75: cached_config is read again and returned
ThreadReturnCached(i) ==
    /\ frames[i].pc = "return_cached"
    /\ thread_return(i, cached_config[1], "cached")
    /\ UNCHANGED <<cache_vars, cached_from, overlapped>>

\* lines 79-85: the document is fetched, parsed and sorted
ThreadGetObject(i) ==
    /\ frames[i].pc = "get"
    /\ ~parse_fails(store_doc)
    /\ thread_frame(i, [frames[i] EXCEPT
          !.pc = "write_config",
          !.routing_rules = Some(sort_by_priority(store_doc.rules)),
          !.fetched = Some(store_mtime)])
    /\ UNCHANGED <<cache_vars, cached_from, overlapped>>

\* line 88: cached_config = routing_rules
ThreadWriteConfig(i) ==
    /\ frames[i].pc = "write_config"
    /\ cached_config' = frames[i].routing_rules
    /\ cached_from' = frames[i].fetched
    /\ thread_frame(i, [frames[i] EXCEPT !.pc = "write_time"])
    /\ UNCHANGED <<config_last_modified, overlapped>>

\* lines 89-92: config_last_modified = last_modified, and the rules are returned
ThreadWriteTime(i) ==
    /\ frames[i].pc = "write_time"
    /\ config_last_modified' = recorded_timestamp(frames[i].last_modified)
    /\ thread_return(i, frames[i].routing_rules[1], "fresh")
    /\ UNCHANGED <<cached_config, cached_from, overlapped>>

NextConcurrent ==
    \/ PutConfig
    \/ \E i \in Invocations : ThreadEnter(i)
    \/ \E i \in Invocations : ThreadHeadObject(i)
    \/ \E i \in Invocations : ThreadLoadFails(i)
    \/ \E i \in Invocations : ThreadTestConfig(i)
    \/ \E i \in Invocations : ThreadTestTime(i)
    \/ \E i \in Invocations : ThreadReturnCached(i)
    \/ \E i \in Invocations : ThreadGetObject(i)
    \/ \E i \in Invocations : ThreadWriteConfig(i)
    \/ \E i \in Invocations : ThreadWriteTime(i)

SpecConcurrent == Init /\ [][NextConcurrent]_vars

(***************************************************************************)
(* Properties                                                              *)
(***************************************************************************)
\* what the claims say about keys, stated on the characters of the key
KeyIsHidden(key) ==
    \E i \in 1..Len(key) :
        /\ key[i] = "."
        /\ (i = 1 \/ key[i - 1] = "/")
        /\ \A m \in i..Len(key) : key[m] # "/"

KeyIsDir(key) == key # <<>> /\ key[Len(key)] = "/"

\* the rules of a rule set that match a key (a rule whose evaluation raises
\* does not match)
Matching(key, rules) ==
    {j \in 1..Len(rules) :
        /\ matches_rule_exc(key, key_filename(key), rules[j]) = "none"
        /\ matches_rule(key, key_filename(key), rules[j])}

\* the records for which find_best_destination was called and returned
Returned == {n \in 1..Len(resolved) : ~resolved[n].skipped /\ resolved[n].exc = "none"}

Copies == {p \in 1..Len(s3_calls) : s3_calls[p].op = "copy_object"}
Deletes == {p \in 1..Len(s3_calls) : s3_calls[p].op = "delete_object"}

RuleNamed(name) == {j \in 1..Len(routing_rules) : routing_rules[j].name = name}

\* the returned rule is the first matching one, by position and by priority
FirstMatchReturned(n) ==
    LET r == resolved[n]
        M == Matching(r.key, routing_rules)
    IN  /\ (r.rule = None <=> M = {})
        /\ r.rule # None =>
              \E j \in M :
                  /\ routing_rules[j].name = r.rule[1].name
                  /\ \A m \in M : m >= j
                  /\ \A m \in M : sort_key(routing_rules[m]) >= sort_key(routing_rules[j])

\* C1 as stated: for every object key, find_best_destination returns the
\* first rule in ascending-priority order for which matches_rule is true,
\* and none exactly when no rule matches.
C1_FirstMatchForEveryKey == \A n \in Returned : FirstMatchReturned(n)

\* C1 amended: for every key that is neither hidden nor a directory
\* placeholder, whenever find_best_destination returns, it returns the first
\* rule in ascending-priority order for which matches_rule is true, and none
\* exactly when no rule matches; for a hidden or directory key it returns
\* none whatever the rules are.
C1_FirstMatchForRoutableKeys ==
    \A n \in Returned :
        IF KeyIsHidden(resolved[n].key) \/ KeyIsDir(resolved[n].key)
        THEN resolved[n].rule = None
        ELSE FirstMatchReturned(n)

\* several rules match the key, and the one returned comes later in the
\* document than another matching one
C1_Witness ==
    \E n \in Returned :
        /\ resolved[n].rule # None
        /\ Cardinality(Matching(resolved[n].key, routing_rules)) >= 2
        /\ \E d \in Docs : \E a, b \in 1..Len(d.rules) :
              /\ a < b
              /\ d.rules[b].name = resolved[n].rule[1].name
              /\ \E m \in Matching(resolved[n].key, routing_rules) :
                    routing_rules[m].name = d.rules[a].name

\* C2 as stated: a misconfigured rule (invalid regex, filter without
\* 'value', invalid pattern_type) is treated as non-matching and never
\* raises, so lambda_handler still returns its summary.
C2_MisconfiguredRuleNeverRaises ==
    /\ pc # "raised"
    /\ \A n \in 1..Len(resolved) : resolved[n].exc = "none"

\* C3 as stated: once a load has succeeded, an invocation that observes a
\* modification timestamp not later than the recorded one issues no
\* get_object.
C3_NoRefetchWhenUnchanged ==
    pc = "get" =>
        ~(/\ cached_config # None
          /\ config_last_modified # None
          /\ last_modified[1] <= config_last_modified[1])

\* C4: when the load fails, the invocation uses the empty rule set even if
\* a non-empty one is cached: no copy_object, no delete_object, and the
\* summary is status 200 with 0 processed files and 0 errors.
C4_FailClosed ==
    load_outcome = "failed" =>
        /\ routing_rules = <<>>
        /\ Copies = {}
        /\ Deletes = {}
        /\ pc # "raised"
        /\ processed_files = <<>>
        /\ errors = <<>>
        /\ pc = "returned" =>
              /\ response[1].statusCode = 200
              /\ response[1].body.processed_files = 0
              /\ response[1].body.errors = 0

\* the load failed while rules were cached that match a record of the
\* batch, and the invocation returned
C4_Witness ==
    /\ load_outcome = "failed"
    /\ pc = "returned"
    /\ truthy_list(cached_config)
    /\ \E n \in 1..Len(event) :
          /\ unquote_plus(event[n].key) # CONFIG_FILE_KEY
          /\ find_best_destination(unquote_plus(event[n].key), cached_config[1]).rule # None

\* C5: delete_object is issued only if the rule's delete_source is true and
\* only right after a successful copy_object of the same object; a failed
\* delete after a successful copy gives a failure result and leaves the
\* copy at the destination.
C5_DeleteOnlyAfterCopy ==
    \A p \in Deletes :
        /\ p - 1 \in Copies
        /\ LET del == s3_calls[p]
               copy == s3_calls[p - 1]
           IN  /\ copy.ok
               /\ copy.copy_source.bucket = del.bucket
               /\ copy.copy_source.key = del.key
               /\ \E j \in RuleNamed(copy.metadata.routing_rule) :
                     /\ "delete_source" \in DOMAIN routing_rules[j]
                     /\ routing_rules[j].delete_source
               /\ ~del.ok =>
                     /\ [bucket |-> copy.bucket, key |-> copy.key] \in objects
                     /\ Cardinality({e \in 1..Len(errors) :
                            /\ ~errors[e].success
                            /\ errors[e].source = s3_uri(del.bucket, del.key)})
                        >= Cardinality({q \in Deletes :
                            /\ ~s3_calls[q].ok
                            /\ s3_calls[q].key = del.key})

\* a delete failed after its copy succeeded
C5_Witness ==
    \E p \in Deletes :
        /\ ~s3_calls[p].ok
        /\ p - 1 \in Copies
        /\ s3_calls[p - 1].ok
        /\ pc = "returned"

\* the records the loop is done with
Done == 1..(idx - 1)

RecordUri(n) == s3_uri(event[n].bucket, unquote_plus(event[n].key))

ResultsFor(list, uri) == {k \in 1..Len(list) : list[k].source = uri}

\* C6: each record whose key resolves to a rule contributes exactly one
\* result, in exactly one of the two lists, and each other record none; a
\* failure in process_file never propagates and never keeps the records
\* after it from being resolved and processed.
C6_OneResultPerResolvedRecord ==
    /\ Len(resolved) \in {idx - 1, idx}
    /\ Len(processed_files) + Len(errors)
          = Cardinality({n \in Done : resolved[n].rule # None})
    /\ \A n \in Done :
          Cardinality(ResultsFor(processed_files, RecordUri(n)))
            + Cardinality(ResultsFor(errors, RecordUri(n)))
          = Cardinality({m \in Done : /\ resolved[m].rule # None
                                      /\ RecordUri(m) = RecordUri(n)})
    /\ \A k \in 1..Len(processed_files) : processed_files[k].success
    /\ \A k \in 1..Len(errors) : ~errors[k].success
    /\ pc = "raised" => resolved[Len(resolved)].exc # "none"
    /\ pc = "returned" => Len(resolved) = Len(event)
    /\ pc \in {"process", "delete"} => Len(resolved) = idx

\* the first record failed in process_file and the second, a different
\* object, was processed successfully
C6_Witness ==
    /\ pc = "returned"
    /\ Len(event) = 2
    /\ RecordUri(1) # RecordUri(2)
    /\ Len(errors) = 1
    /\ errors[1].source = RecordUri(1)
    /\ Len(processed_files) = 1
    /\ processed_files[1].source = RecordUri(2)

\* a record produced a failure result: a call of its process_file failed,
\* or its rule lacks a key process_file subscripts
FailureProduced ==
    \/ \E p \in Copies \cup Deletes : ~s3_calls[p].ok
    \/ \E n \in Done : resolved[n].rule # None /\ process_key_error(resolved[n].rule[1])

SuccessesProduced ==
    Cardinality({n \in Done : resolved[n].rule # None}) -
    (Cardinality({p \in Copies \cup Deletes : ~s3_calls[p].ok}) +
     Cardinality({n \in Done : resolved[n].rule # None
                               /\ process_key_error(resolved[n].rule[1])}))

\* C7: the summary has statusCode 207 if and only if at least one record
\* produced a failure result and 200 otherwise; 'processed_files' is the
\* number of success results and 'errors' the number of failure results
\* listed in 'details'.
C7_SummaryCounts ==
    pc = "returned" =>
        LET r == response[1]
        IN  /\ r.statusCode = IF FailureProduced THEN 207 ELSE 200
            /\ r.body.processed_files = Len(r.body.details.successful)
            /\ r.body.errors = Len(r.body.details.failed)
            /\ r.body.processed_files = SuccessesProduced
            /\ r.body.processed_files + r.body.errors
                  = Cardinality({n \in Done : resolved[n].rule # None})
            /\ \A k \in 1..Len(r.body.details.successful) :
                  r.body.details.successful[k].success
            /\ \A k \in 1..Len(r.body.details.failed) :
                  ~r.body.details.failed[k].success

\* a batch with one success and one failure was summarised
C7_Witness ==
    /\ pc = "returned"
    /\ response[1].statusCode = 207
    /\ response[1].body.processed_files = 1
    /\ response[1].body.errors = 1

\* the key is the rule's source_pattern followed by one path segment
ExactFolder(key, rule) ==
    LET source_pattern == Get(rule, "source_pattern", <<>>)
    IN  /\ StartsWith(key, source_pattern)
        /\ \A m \in (Len(source_pattern) + 1)..Len(key) : key[m] # "/"
        /\ source_pattern # <<>> => source_pattern[Len(source_pattern)] = "/"

\* C8: matches_rule requires exact equality between source_pattern and the
\* key's folder path: a key in a sub-folder of source_pattern never
\* matches, and a root-level key matches only a rule whose source_pattern
\* is ''.
C8_ExactFolderMatch ==
    \A n \in 1..Len(resolved) :
        LET key == resolved[n].key
        IN  /\ \A j \in Matching(key, routing_rules) : ExactFolder(key, routing_rules[j])
            /\ resolved[n].rule # None => ExactFolder(key, resolved[n].rule[1])
            /\ (~HasChar(key, "/") /\ resolved[n].rule # None)
                  => Get(resolved[n].rule[1], "source_pattern", <<>>) = <<>>

\* a key in a sub-folder of the source_pattern of an enabled rule of valid
\* type that allows its file type was evaluated against it and not matched
C8_Witness ==
    \E n \in Returned : \E j \in 1..resolved[n].evaluated :
        LET key == resolved[n].key
            rule == routing_rules[j]
        IN  /\ Get(rule, "source_pattern", <<>>) # <<>>
            /\ StartsWith(key, Get(rule, "source_pattern", <<>>))
            /\ ~ExactFolder(key, rule)
            /\ Get(rule, "enabled", TRUE)
            /\ Get(rule, "pattern_type", "prefix") = "prefix"
            /\ check_file_type(key_filename(key), Get(rule, "file_types", <<>>))
            /\ resolved[n].rule = None

InvalidType(rule) ==
    /\ "pattern_type" \in DOMAIN rule
    /\ rule.pattern_type # "prefix"
    /\ rule.pattern_type # "prefix_with_filename_filter"

\* C9: a rule whose pattern_type is neither 'prefix' nor
\* 'prefix_with_filename_filter' never matches any key, whatever its other
\* fields are, so it never causes a copy or a delete.
C9_InvalidTypeNeverMatches ==
    /\ \A n \in 1..Len(resolved) : \A j \in 1..Len(routing_rules) :
          InvalidType(routing_rules[j]) =>
              /\ j \notin Matching(resolved[n].key, routing_rules)
              /\ resolved[n].rule # None =>
                    resolved[n].rule[1].name # routing_rules[j].name
    /\ destination_info # None => ~InvalidType(destination_info[1])
    /\ \A p \in Copies : \A j \in RuleNamed(s3_calls[p].metadata.routing_rule) :
          ~InvalidType(routing_rules[j])

\* a rule of invalid type whose enabled flag, file types and source_pattern
\* all fit the key was evaluated and passed over, and the object was then
\* copied under a later rule
C9_Witness ==
    \E n \in Returned : \E j \in 1..resolved[n].evaluated :
        LET key == resolved[n].key
            rule == routing_rules[j]
        IN  /\ InvalidType(rule)
            /\ Get(rule, "enabled", TRUE)
            /\ check_file_type(key_filename(key), Get(rule, "file_types", <<>>))
            /\ ExactFolder(key, rule)
            /\ resolved[n].rule # None
            /\ \E p \in Copies : s3_calls[p].copy_source.key = key /\ s3_calls[p].ok

\* C10: a key whose final segment starts with '.' or that ends with '/' is
\* never passed to matches_rule, resolves to no destination, and produces
\* no copy, no delete and no result.
C10_HiddenAndDirKeysSkipped ==
    \A n \in 1..Len(resolved) :
        LET key == resolved[n].key
        IN  (KeyIsHidden(key) \/ KeyIsDir(key)) =>
                /\ resolved[n].evaluated = 0
                /\ resolved[n].exc = "none"
                /\ resolved[n].rule = None
                /\ \A p \in Copies : s3_calls[p].copy_source.key # key
                /\ \A p \in Deletes : s3_calls[p].key # key
                /\ ResultsFor(processed_files, RecordUri(n)) = {}
                /\ ResultsFor(errors, RecordUri(n)) = {}

\* a hidden key and a directory key were handled under rules that
\* matches_rule would accept for them
C10_Witness ==
    /\ pc = "returned"
    /\ \E n \in Returned :
          /\ KeyIsHidden(resolved[n].key)
          /\ Matching(resolved[n].key, routing_rules) # {}
    /\ \E n \in Returned :
          /\ KeyIsDir(resolved[n].key)
          /\ Matching(resolved[n].key, routing_rules) # {}

\* s holds the rules of a document, each once, ascending by priority, the
\* rules of equal priority (or all without one) in the document's order
HasPriority(rule) == "priority" \in DOMAIN rule

StableSortOf(s, rules) ==
    /\ Len(s) = Len(rules)
    /\ {s[i] : i \in 1..Len(s)} = {rules[i] : i \in 1..Len(rules)}
    /\ \E p \in [1..Len(rules) -> 1..Len(rules)] :
          /\ \A i, j \in 1..Len(rules) : i # j => p[i] # p[j]
          /\ \A i \in 1..Len(rules) : s[i] = rules[p[i]]
          /\ \A i, j \in 1..Len(rules) :
                i < j =>
                    /\ (HasPriority(s[i]) /\ HasPriority(s[j]))
                          => s[i].priority <= s[j].priority
                    /\ (HasPriority(s[i]) /\ HasPriority(s[j])
                          /\ s[i].priority = s[j].priority) => p[i] < p[j]
                    /\ (~HasPriority(s[i]) /\ ~HasPriority(s[j])) => p[i] < p[j]

\* C11: every rule set returned by a successful load, and every rule set
\* held in the cache, is a permutation of the document's rules ordered
\* ascending by priority, rules of equal priority in document order.
C11_SortedStablePermutation ==
    /\ load_outcome = "fresh" => StableSortOf(routing_rules, store_doc.rules)
    /\ load_outcome = "cached" => routing_rules = cached_config[1]
    /\ cached_config # None =>
          \E d \in Docs : d.kind = "rules" /\ StableSortOf(cached_config[1], d.rules)

\* a document whose order the sort changes and that has two rules of equal
\* priority was loaded and cached
C11_Witness ==
    /\ load_outcome = "fresh"
    /\ routing_rules # store_doc.rules
    /\ cached_config = Some(routing_rules)
    /\ \E i, j \in 1..Len(routing_rules) :
          /\ i < j
          /\ HasPriority(routing_rules[i])
          /\ HasPriority(routing_rules[j])
          /\ routing_rules[i].priority = routing_rules[j].priority

\* a call of the function fn was made and has returned
Called(fn) == args # None /\ returned # None /\ args[1].fn = fn

\* the extension of a filename: the last '.' and what follows it, or ''
LastDot(filename) ==
    CHOOSE i \in 1..Len(filename) :
        filename[i] = "." /\ \A m \in (i + 1)..Len(filename) : filename[m] # "."

ExtensionOf(filename) ==
    IF \E i \in 1..Len(filename) : filename[i] = "."
    THEN SubSeq(filename, LastDot(filename), Len(filename))
    ELSE <<>>

SameIgnoringCase(a, b) ==
    Len(a) = Len(b) /\ \A k \in 1..Len(a) : LowerChar(a[k]) = LowerChar(b[k])

\* C13: check_file_type returns true for every filename when allowed_types
\* is empty; otherwise exactly when the filename's extension ('.' plus the
\* text after the last '.', or '' without a '.') equals some allowed entry,
\* compared case-insensitively on both sides.
C13_FileTypeGate ==
    Called("check_file_type") =>
        LET filename == args[1].filename
            allowed_types == args[1].allowed_types
        IN  returned[1] =
                (\/ allowed_types = <<>>
                 \/ \E i \in 1..Len(allowed_types) :
                        SameIgnoringCase(allowed_types[i], ExtensionOf(filename)))

\* 'a.csv' passed ['.CSV', '.b']: the entry is upper case, the extension not
C13_Witness ==
    /\ Called("check_file_type")
    /\ args[1].filename = <<"a",".","c","s","v">>
    /\ args[1].allowed_types = <<<<".","C","S","V">>, <<".","b">>>>
    /\ returned[1] = TRUE

\* C12 as stated: a rule with no priority is never ordered before a rule
\* with an explicit integer priority, and whenever a rule with an explicit
\* priority and one without both match a key, the one with the explicit
\* priority is selected (read for the keys that reach the matcher, which
\* are neither hidden nor directory placeholders).
C12_MissingPriorityIsLowest ==
    Called("find_best_destination") =>
        LET key == args[1].source_key
            rules == returned[1].routing_rules
            found == returned[1].found
            M == Matching(key, rules)
        IN  /\ \A i, j \in 1..Len(rules) :
                  (i < j /\ ~HasPriority(rules[i])) => ~HasPriority(rules[j])
            /\ (/\ ~KeyIsHidden(key)
                /\ ~KeyIsDir(key)
                /\ \E m \in M : HasPriority(rules[m])
                /\ \E m \in M : ~HasPriority(rules[m]))
                  => (found.rule # None /\ HasPriority(found.rule[1]))

\* C12 amended: a rule with no priority is ordered as if its priority were
\* 999: after every rule with an explicit priority below 999, before every
\* rule with an explicit priority above 999, and in document order with
\* respect to a rule of priority 999; so whenever find_best_destination
\* returns a rule and a rule with an explicit priority below 999 matches the
\* key, the rule returned has an explicit priority below 999.
C12_MissingPriorityIsSentinel ==
    Called("find_best_destination") =>
        LET document == args[1].document
            rules == returned[1].routing_rules
            found == returned[1].found
            M == Matching(args[1].source_key, rules)
            Below(rule) == HasPriority(rule) /\ rule.priority < DefaultPriority
            Above(rule) == HasPriority(rule) /\ rule.priority > DefaultPriority
            At(rule) == HasPriority(rule) /\ rule.priority = DefaultPriority
        IN  /\ Len(rules) = Len(document)
            /\ \A i, j \in 1..Len(rules) :
                  (i < j /\ ~HasPriority(rules[i])) => ~Below(rules[j])
            /\ \A i, j \in 1..Len(rules) :
                  (i < j /\ ~HasPriority(rules[j])) => ~Above(rules[i])
            /\ \A a, b \in 1..Len(document) :
                  (/\ a < b
                   /\ ~HasPriority(document[a]) \/ At(document[a])
                   /\ ~HasPriority(document[b]) \/ At(document[b])
                   /\ document[a] # document[b])
                  => \E i, j \in 1..Len(rules) :
                        i < j /\ rules[i] = document[a] /\ rules[j] = document[b]
            /\ (found.rule # None /\ \E m \in M : Below(rules[m]))
                  => Below(found.rule[1])

\* the document lists a rule without priority before a rule of priority 1,
\* both match the key, and the rule of priority 1 was returned
C12_Witness ==
    /\ Called("find_best_destination")
    /\ args[1].document = <<RuleNoPriority, RuleWithPriority("p1", 1, FolderIn)>>
    /\ Cardinality(Matching(args[1].source_key, returned[1].routing_rules)) = 2
    /\ returned[1].found.rule = Some(RuleWithPriority("p1", 1, FolderIn))

\* a multiple_patterns filter was evaluated and the evaluation returned
PatternsReturned ==
    /\ Called("check_filename_filter")
    /\ args[1].filename_filter.type = "multiple_patterns"
    /\ returned[1].exc = "none"

\* the nested filters of the evaluated filter that accept the filename
NestedPatterns == Get(args[1].filename_filter, "patterns", <<>>)

Accepting ==
    {i \in 1..Len(NestedPatterns) :
        check_filename_filter(args[1].filename, NestedPatterns[i])}

\* C14 as stated: a multiple_patterns filter returns the logical OR of the
\* nested results when match_logic is 'any', and the logical AND when
\* match_logic is absent or any other value.
C14_AbsentMatchLogicIsAll ==
    PatternsReturned =>
        returned[1].value =
            IF /\ "match_logic" \in DOMAIN args[1].filename_filter
               /\ args[1].filename_filter.match_logic = "any"
            THEN Accepting # {}
            ELSE Accepting = 1..Len(NestedPatterns)

\* C14 amended: whenever the evaluation of a multiple_patterns filter
\* returns, it returns the logical OR of the nested results when match_logic
\* is 'any' or absent, and the logical AND when match_logic is present with
\* any other value.
C14_AbsentMatchLogicIsAny ==
    PatternsReturned =>
        returned[1].value =
            IF \/ "match_logic" \notin DOMAIN args[1].filename_filter
               \/ args[1].filename_filter.match_logic = "any"
            THEN Accepting # {}
            ELSE Accepting = 1..Len(NestedPatterns)

\* a filter without match_logic whose first nested filter rejects the
\* filename and whose second accepts it returned true
C14_Witness ==
    /\ PatternsReturned
    /\ "match_logic" \notin DOMAIN args[1].filename_filter
    /\ Len(NestedPatterns) = 2
    /\ Accepting = {2}
    /\ returned[1].value = TRUE

\* '_<T>': an underscore and the time as YYYYMMDD_HHMMSS
TimestampSuffix(now) ==
    <<"_">> \o Pad4(now.Y) \o Pad2(now.M) \o Pad2(now.D) \o <<"_">> \o
    Pad2(now.h) \o Pad2(now.m) \o Pad2(now.s)

\* the final path segment of a key, by the position of its last '/'
FinalSegment(key) ==
    IF \E i \in 1..Len(key) : key[i] = "/"
    THEN LET slash == CHOOSE i \in 1..Len(key) :
                         key[i] = "/" /\ \A m \in (i + 1)..Len(key) : key[m] # "/"
         IN  SubSeq(key, slash + 1, Len(key))
    ELSE key

\* the filename with the suffix inserted right before its extension
WithSuffix(filename, suffix) ==
    LET ext == ExtensionOf(filename)
    IN  SubSeq(filename, 1, Len(filename) - Len(ext)) \o suffix \o ext

\* C15 as stated: the destination key is destination_prefix followed by the
\* destination filename; with add_timestamp true or absent that is the
\* source filename with '_<T>' inserted immediately before its last
\* '.'-extension (appended when it has no '.'), and with add_timestamp false
\* the source filename unchanged.
C15_DestinationKey ==
    Called("destination_key") =>
        LET rule == args[1].destination_info
            filename == FinalSegment(args[1].source_key)
        IN  returned[1] =
                rule.destination_prefix \o
                (IF "add_timestamp" \in DOMAIN rule
                    /\ ~rule.add_timestamp
                 THEN filename
                 ELSE WithSuffix(filename, TimestampSuffix(args[1].now)))

\* C16 as stated: a failed load leaves cached_config and
\* config_last_modified as the last successful load set them, and a later
\* invocation that reaches the store and observes a timestamp not later than
\* the recorded one returns the cached set without fetching.
C16_FailedLoadKeepsCache ==
    [][/\ (load_outcome # "failed" /\ load_outcome' = "failed")
            => UNCHANGED cache_vars
       /\ ~(/\ failed_after_load
            /\ pc = "head"
            /\ pc' = "get"
            /\ last_modified'[1] <= config_last_modified[1])]_vars

\* the cached rule set was parsed from a document version older than the
\* one whose timestamp is recorded
StaleCache ==
    /\ cached_from # None
    /\ config_last_modified # None
    /\ cached_from[1] < config_last_modified[1]

\* C17: the unlocked read-then-write of the cache is safe only when
\* invocations do not overlap: the cached rule set comes from an older
\* document version than the recorded timestamp only if two invocations of
\* load_routing_config interleaved, and then such a state is reachable and
\* the stale rules are served as current.
C17_StaleOnlyWhenOverlapped == StaleCache => overlapped

\* after two invocations overlapped, the cache holds the rules of an older
\* version under the timestamp of the version now in the store, and a later
\* invocation took the cached branch and returned those rules
C17_Witness ==
    /\ StaleCache
    /\ overlapped
    /\ store_mtime = config_last_modified[1]
    /\ store_doc.kind = "rules"
    /\ cached_config[1] # sort_by_priority(store_doc.rules)
    /\ \A i \in Invocations : frames[i].pc \in {"idle", "done"}
    /\ \E i \in Invocations :
          /\ frames[i].pc = "done"
          /\ frames[i].outcome = "cached"
          /\ frames[i].routing_rules = cached_config

\* C18 as stated: when invocations run one at a time, cached_config and
\* config_last_modified are either both unset or both set by the same
\* successful load, and the recorded timestamp is the modification
\* timestamp of the document version the cached rule set was parsed from.
C18_CachePairOfOneVersion ==
    /\ (cached_config = None) <=> (config_last_modified = None)
    /\ (cached_config = None) <=> (cached_from = None)
    /\ cached_config # None => config_last_modified = cached_from

\* C19: a record whose decoded key equals CONFIG_FILE_KEY is skipped
\* before rule resolution: it is never copied or deleted, even if a rule
\* would match it, and it adds no entry to either result list, while the
\* remaining records of the batch are still processed.
C19_ConfigRecordSkipped ==
    /\ \A n \in 1..Len(resolved) :
          resolved[n].key = CONFIG_FILE_KEY =>
              /\ resolved[n].skipped
              /\ resolved[n].evaluated = 0
              /\ resolved[n].rule = None
              /\ ResultsFor(processed_files, RecordUri(n)) = {}
              /\ ResultsFor(errors, RecordUri(n)) = {}
              /\ n < Len(event) => pc \notin {"returned", "raised"} \/ Len(resolved) > n
    /\ \A p \in Copies : s3_calls[p].copy_source.key # CONFIG_FILE_KEY
    /\ \A p \in Deletes : s3_calls[p].key # CONFIG_FILE_KEY
    /\ destination_info # None => source_key # CONFIG_FILE_KEY

\* the first record of a batch was the config file, which a rule of the
\* loaded set matches, and the second record was then copied
C19_Witness ==
    /\ pc = "returned"
    /\ Len(event) = 2
    /\ resolved[1].key = CONFIG_FILE_KEY
    /\ Matching(CONFIG_FILE_KEY, routing_rules) # {}
    /\ Len(processed_files) = 1
    /\ processed_files[1].source = RecordUri(2)

====
